---------------------------- MODULE Spec2Model ----------------------------
(***************************************************************************)
(* A model of gogsmmodem (src/util.go): the AT protocol engine             *)
(* (Modem.listen), the Line Reader (lineChannel), the packet parser        *)
(* (parsePacket), the command formatter and the public API calls that      *)
(* drive round trips through the engine.                                   *)
(*                                                                         *)
(* Text is modelled as a sequence of tokens.  A token is a record          *)
(* [q, s]: s is the token's text and q says whether the text stands        *)
(* between double quotes on the wire.  A line is a sequence of tokens, the *)
(* empty string is the empty sequence, and string concatenation is \o.     *)
(* In an argument list the separating commas are implicit between tokens.  *)
(* Tokens are atomic: a prefix or substring test looks at whole tokens.    *)
(***************************************************************************)
EXTENDS Integers, Sequences, FiniteSets, TLC

T(s) == [q |-> FALSE, s |-> s]
Q(s) == [q |-> TRUE, s |-> s]

CRLF == T("\r\n")
CtrlZ == T("\\x1A")

\* Decimal numerals that occur on the wire (strconv.Atoi succeeds on them).
Numerals ==
  {"0", "1", "2", "3", "4", "8", "9", "12", "24", "49", "100", "145", "167"}

\* The +XXXX tokens that reQuestion's group (\+[A-Z]+) can capture.
PlusNames ==
  {"+CMGF", "+CMGR", "+CMGL", "+CMGD", "+CMGS", "+CPMS", "+CSCS", "+CSMP",
   "+CSCA", "+CNMI"}

\* Go values held in an interface{}: a string or an int, a value of another
\* type, or nil.
StrV(s) == [typ |-> "string", s |-> s]
IntV(s) == [typ |-> "int", s |-> s]
OtherV(s) == [typ |-> "float64", s |-> s]
NilV == [typ |-> "nil", s |-> ""]

--------------------------------------------------------------------------
(* Command Formatter *)

\* quote: "?" and integers pass unquoted, other strings are double-quoted;
\* any other type panics.  The result is a sequence of tokens, or the
\* marker "panic".
quote(v) ==
  CASE v.typ = "string" -> IF v.s = "?" THEN T(v.s) ELSE Q(v.s)
    [] v.typ = "int" -> T(v.s)
    [] OTHER -> T("panic")

quotes(args) == [i \in 1..Len(args) |-> quote(args[i])]

\* formatCommand: "AT" + cmd + ("=" + quotes(args)) + "\r\n".  cmd is given
\* as its tokens (<<T("+CSCA"), T("?")>> for "+CSCA?", <<>> for "").
\* quote panics on an argument that is neither a string nor an integer,
\* and the panic goes up through quotes and formatCommand.
quotePanics(v) == v.typ \notin {"string", "int"}

formatCommandPanics(args) == \E i \in 1..Len(args) : quotePanics(args[i])

formatCommand(cmd, args) ==
  <<T("AT")>> \o cmd
    \o (IF Len(args) > 0 THEN <<T("=")>> \o quotes(args) ELSE <<>>)
    \o <<CRLF>>

\* strings.TrimRight(line, "\r\n"): drop every trailing CR / LF.
IsTerminatorTok(t) == ~t.q /\ t.s \in {"\r\n", "\r", "\n"}

RECURSIVE TrimRight(_)
TrimRight(line) ==
  IF line = <<>> THEN <<>>
  ELSE IF IsTerminatorTok(line[Len(line)])
       THEN TrimRight(SubSeq(line, 1, Len(line) - 1))
       ELSE line

--------------------------------------------------------------------------
(* GSM 03.38 default alphabet.  A character is its code point, a string the
   sequence of its characters; the strings of the encode table hold only
   bytes below 0x80, each of which is one character. *)

gsm0338EncodeTable ==
  {<<64, <<0>>>>, <<163, <<1>>>>, <<36, <<2>>>>, <<165, <<3>>>>,
   <<232, <<4>>>>, <<233, <<5>>>>, <<249, <<6>>>>, <<236, <<7>>>>,
   <<242, <<8>>>>, <<199, <<9>>>>, <<13, <<10>>>>, <<216, <<11>>>>,
   <<248, <<12>>>>, <<10, <<13>>>>, <<197, <<14>>>>, <<229, <<15>>>>,
   <<916, <<16>>>>, <<95, <<17>>>>, <<934, <<18>>>>, <<915, <<19>>>>,
   <<923, <<20>>>>, <<937, <<21>>>>, <<928, <<22>>>>, <<936, <<23>>>>,
   <<931, <<24>>>>, <<920, <<25>>>>, <<926, <<26>>>>, <<198, <<28>>>>,
   <<230, <<29>>>>, <<201, <<31>>>>, <<164, <<36>>>>, <<37, <<37>>>>,
   <<161, <<64>>>>, <<196, <<91>>>>, <<214, <<92>>>>, <<209, <<93>>>>,
   <<220, <<94>>>>, <<167, <<95>>>>, <<228, <<123>>>>, <<246, <<124>>>>,
   <<241, <<125>>>>, <<252, <<126>>>>, <<224, <<127>>>>,
   <<8364, <<27, 101>>>>, <<91, <<27, 60>>>>, <<92, <<27, 47>>>>,
   <<93, <<27, 62>>>>, <<94, <<27, 94>>>>, <<123, <<27, 40>>>>,
   <<124, <<27, 64>>>>, <<125, <<27, 41>>>>, <<126, <<27, 61>>>>}

gsm0338DecodeTable ==
  {<<0, 64>>, <<1, 163>>, <<2, 36>>, <<3, 165>>, <<4, 232>>, <<5, 233>>,
   <<6, 249>>, <<7, 236>>, <<8, 242>>, <<9, 199>>, <<10, 13>>, <<11, 216>>,
   <<12, 248>>, <<13, 10>>, <<14, 197>>, <<15, 229>>, <<16, 916>>,
   <<17, 95>>, <<18, 934>>, <<19, 915>>, <<20, 923>>, <<21, 937>>,
   <<22, 928>>, <<23, 936>>, <<24, 931>>, <<25, 920>>, <<26, 926>>,
   <<28, 198>>, <<29, 230>>, <<31, 201>>, <<36, 164>>, <<37, 37>>,
   <<64, 161>>, <<91, 196>>, <<92, 214>>, <<93, 209>>, <<94, 220>>,
   <<95, 167>>, <<123, 228>>, <<124, 246>>, <<125, 241>>, <<126, 252>>,
   <<127, 224>>}

EncodeKeys == {p[1] : p \in gsm0338EncodeTable}
DecodeKeys == {p[1] : p \in gsm0338DecodeTable}

gsm0338Encode(c) == (CHOOSE p \in gsm0338EncodeTable : p[1] = c)[2]

\* The decode table of the standard alphabet, where 0x0A is line feed and
\* 0x0D is carriage return.
gsm0338DecodeStandard(c) ==
  IF c \in {10, 13} THEN c ELSE (CHOOSE p \in gsm0338DecodeTable : p[1] = c)[2]

gsm0338Decode(c) == (CHOOSE p \in gsm0338DecodeTable : p[1] = c)[2]

\* The characters the encode table maps to an escape (0x1B) sequence.
EscapedKeys == {c \in EncodeKeys : Len(gsm0338Encode(c)) > 1}

\* gsmEncode / gsmDecode: each character is replaced by its table entry if
\* it has one, and kept otherwise.
RECURSIVE gsmEncode(_)
gsmEncode(s) ==
  IF s = <<>> THEN <<>>
  ELSE (IF Head(s) \in EncodeKeys THEN gsm0338Encode(Head(s)) ELSE <<Head(s)>>)
         \o gsmEncode(Tail(s))

gsmDecode(s) ==
  [i \in 1..Len(s) |-> IF s[i] \in DecodeKeys THEN gsm0338Decode(s[i]) ELSE s[i]]

--------------------------------------------------------------------------
(* Packet Parser *)

startsWith(s, p) == Len(s) > 0 /\ ~s[1].q /\ s[1].s = p

\* strings.Contains(line, w) for w a whole token's text.
Contains(line, w) == \E i \in 1..Len(line) : line[i].s = w

isFinalStatus(status) ==
  \/ status = <<T("OK")>>
  \/ status = <<T("ERROR")>>
  \/ Contains(status, "+CMS ERROR")
  \/ Contains(status, "+CME ERROR")

\* unquote: a value starting with a double quote is the string between the
\* quotes; else an int when strconv.Atoi accepts it; else the string itself.
unquote(t) ==
  IF t.q THEN StrV(t.s)
  ELSE IF t.s \in Numerals THEN IntV(t.s) ELSE StrV(t.s)

\* unquotes: RegexQuote.FindAllString yields one (empty) match on the empty
\* string, so an empty argument text gives one empty string argument.
unquotes(toks) ==
  IF toks = <<>> THEN <<StrV("")>>
  ELSE [i \in 1..Len(toks) |-> unquote(toks[i])]

\* stringsUnquotes: fmt.Sprint of each unquoted value.
stringsUnquotes(toks) ==
  LET a == unquotes(toks) IN [i \in 1..Len(a) |-> a[i].s]

\* Strings shorter than three characters: t[:len(t)-3] panics on them.
ShortStrings == {"", "0", "1", "2", "3", "4", "8", "9", "12", "24", "49"}

\* parseTime: drop the 3-character zone suffix and parse with TimeFormat; a
\* text that does not parse gives the zero time.
ZeroTime == "0001-01-01 00:00:00"

parseTime(t) ==
  CASE t = "21/01/01,10:00:00+00" -> "2021-01-01 10:00:00"
    [] t = "21/01/02,11:30:00+00" -> "2021-01-02 11:30:00"
    [] OTHER -> ZeroTime

\* The packets.  A Message's args are <<Index, Status, Telephone, Timestamp>>.
\* st records the terminal status the packet was built with
\* (the parser's first argument); it is not a field of the Go value.
Pkt(kind, name, args, body, last, st) ==
  [kind |-> kind, name |-> name, args |-> args, body |-> body,
   last |-> last, st |-> st]

OKPkt(st) == Pkt("OK", <<>>, <<>>, <<>>, FALSE, st)
ERRORPkt(st) == Pkt("ERROR", <<>>, <<>>, <<>>, FALSE, st)
NilPkt(st) == Pkt("nil", <<>>, <<>>, <<>>, FALSE, st)
PanicPkt(st) == Pkt("panic", <<>>, <<>>, <<>>, FALSE, st)
NoPkt == Pkt("none", <<>>, <<>>, <<>>, FALSE, <<>>)

\* args[i].(string) / args[i].(int): the index must exist and the dynamic
\* type must match, or the goroutine panics.
IsStr(args, i) == i <= Len(args) /\ args[i].typ = "string"
IsInt(args, i) == i <= Len(args) /\ args[i].typ = "int"

\* Position of the first ":" of a header (0 when it has none).
ColonAt(header) ==
  IF \E i \in 1..Len(header) : header[i] = T(":")
  THEN CHOOSE i \in 1..Len(header) :
         /\ header[i] = T(":")
         /\ \A j \in 1..(i - 1) : header[j] # T(":")
  ELSE 0

\* Message.Last of a +CMGL entry: status != "".
MessageLastAlways(status) == TRUE

MessageLast(status) == status # <<>>

parseCMGR(status, args, body) ==
  IF Len(args) < 2 THEN PanicPkt(status)
  ELSE IF args[2] = StrV("")
       THEN Pkt("Message", <<>>, <<IntV("0"), StrV(""), StrV(""), StrV(ZeroTime)>>,
                body, FALSE, status)
       ELSE IF IsStr(args, 1) /\ IsStr(args, 2) /\ IsStr(args, 4)
                 /\ args[4].s \notin ShortStrings
            THEN Pkt("Message", <<>>,
                     <<IntV("0"), args[1], args[2], StrV(parseTime(args[4].s))>>,
                     body, FALSE, status)
            ELSE PanicPkt(status)

parseCMGL(status, args, body) ==
  IF Len(args) < 3 THEN PanicPkt(status)
  ELSE IF args[3].typ = "int"
       THEN IF IsInt(args, 1) /\ IsStr(args, 2)
            THEN Pkt("Message", <<>>,
                     <<args[1], args[2], StrV(args[3].s), StrV(ZeroTime)>>,
                     body, MessageLast(status), status)
            ELSE PanicPkt(status)
       ELSE IF IsInt(args, 1) /\ IsStr(args, 2) /\ IsStr(args, 3)
                 /\ IsStr(args, 5) /\ args[5].s \notin ShortStrings
            THEN Pkt("Message", <<>>,
                     <<args[1], args[2], args[3], StrV(parseTime(args[5].s))>>,
                     body, MessageLast(status), status)
            ELSE PanicPkt(status)

\* The "),(" boundaries of a +CPMS query reply, as token positions i with
\* toks[i] = ")" and toks[i+1] = "(".
RECURSIVE SplitGroups(_, _)
SplitGroups(toks, n) ==
  IF n = 1 \/ ~\E i \in 1..(Len(toks) - 1) : toks[i] = T(")") /\ toks[i + 1] = T("(")
  THEN <<toks>>
  ELSE LET i == CHOOSE k \in 1..(Len(toks) - 1) :
                  /\ toks[k] = T(")") /\ toks[k + 1] = T("(")
                  /\ \A j \in 1..(k - 1) : ~(toks[j] = T(")") /\ toks[j + 1] = T("("))
       IN <<SubSeq(toks, 1, i - 1)>> \o SplitGroups(SubSeq(toks, i + 2, Len(toks)), n - 1)

TrimPrefixParen(toks) ==
  IF Len(toks) > 0 /\ toks[1] = T("(") THEN Tail(toks) ELSE toks

TrimSuffixParen(toks) ==
  IF Len(toks) > 0 /\ toks[Len(toks)] = T(")")
  THEN SubSeq(toks, 1, Len(toks) - 1) ELSE toks

parseCPMS(status, name, uargs, args, body) ==
  IF Len(uargs) > 0 /\ uargs[1] = T("(")
  THEN LET areas == SplitGroups(TrimSuffixParen(TrimPrefixParen(uargs)), 3)
       IN IF Len(areas) < 3 THEN PanicPkt(status)
          ELSE Pkt("StorageAreas", <<>>,
                   <<stringsUnquotes(areas[1]), stringsUnquotes(areas[2]),
                     stringsUnquotes(areas[3])>>, <<>>, FALSE, status)
  ELSE LET iargs == SelectSeq(args, LAMBDA a : a.typ = "int")
       IN IF Len(iargs) = 6
          THEN Pkt("StorageInfo", <<>>, iargs, <<>>, FALSE, status)
          ELSE IF Len(iargs) = 4
               THEN Pkt("StorageInfo", <<>>, iargs \o <<IntV("0"), IntV("0")>>,
                        <<>>, FALSE, status)
               ELSE Pkt("UnknownPacket", name, args, <<>>, FALSE, status)

parsePacket(status, header, body) ==
  IF header = <<>> /\ isFinalStatus(status)
  THEN IF status = <<T("OK")>> THEN OKPkt(status) ELSE ERRORPkt(status)
  ELSE
    LET c == ColonAt(header) IN
    IF c = 0 THEN Pkt("UnknownPacket", header, <<>>, <<>>, FALSE, status)
    ELSE
      LET name == SubSeq(header, 1, c - 1)
          uargs == SubSeq(header, c + 1, Len(header))
          args == unquotes(uargs)
      IN CASE name = <<T("+ZUSIMR")>> -> NilPkt(status)
           [] name = <<T("+ZPASR")>> ->
                IF IsStr(args, 1)
                THEN Pkt("ServiceStatus", <<>>, <<args[1]>>, <<>>, FALSE, status)
                ELSE PanicPkt(status)
           [] name = <<T("+ZDONR")>> ->
                IF IsStr(args, 1)
                THEN Pkt("NetworkStatus", <<>>, <<args[1]>>, <<>>, FALSE, status)
                ELSE PanicPkt(status)
           [] name = <<T("+CMTI")>> ->
                IF IsStr(args, 1) /\ IsInt(args, 2)
                THEN Pkt("MessageNotification", <<>>, <<args[1], args[2]>>,
                         <<>>, FALSE, status)
                ELSE PanicPkt(status)
           [] name = <<T("+CSCA")>> ->
                Pkt("SMSCAddress", <<>>, args, <<>>, FALSE, status)
           [] name = <<T("+CMGR")>> -> parseCMGR(status, args, body)
           [] name = <<T("+CMGL")>> -> parseCMGL(status, args, body)
           [] name = <<T("+CPMS")>> -> parseCPMS(status, name, uargs, args, body)
           [] name = <<>> ->
                IF status = <<T("OK")>> THEN OKPkt(status) ELSE ERRORPkt(status)
           [] OTHER -> Pkt("UnknownPacket", name, args, <<>>, FALSE, status)

--------------------------------------------------------------------------
(* The device: what it answers to a line written to the transport *)

OKLine == <<T("OK")>>
ERRORLine == <<T("ERROR")>>
CMSLine == <<T("+CMS ERROR"), T(":"), T("500")>>
Prompt == <<T("> ")>>
TextLine == <<T("hello")>>
\* A message text that starts like a +CMGR header.
PrefixText == <<T("+CMGR"), T("hello")>>
\* A message text that starts like a +CMGR header and holds the words of a
\* terminal status.
PrefixFinalText == <<T("+CMGR"), T("+CMS ERROR")>>
PduLine == <<T("0791448720003023")>>

\* Bounds of the model.
MaxEntries == 2
MaxBodyLines == 2
MaxUnsol == 1
MaxOps == 2

Idx == <<"1", "2", "3", "4">>

\* A +CMGL entry header: "+CMGL: <index>,"REC READ",<telephone>[,,<time>]".
\* Odd entries carry a quoted telephone and a time, even entries a numeric
\* telephone (the two device variants parsePacket distinguishes).
CMGLHdr(i) ==
  IF i % 2 = 1
  THEN <<T("+CMGL"), T(":"), T(Idx[i]), Q("REC READ"), Q("+15551234"), T(""),
         Q("21/01/01,10:00:00+00")>>
  ELSE <<T("+CMGL"), T(":"), T(Idx[i]), Q("REC READ"), T("100")>>

CMGRHdr ==
  <<T("+CMGR"), T(":"), Q("REC READ"), Q("+15551234"), T(""),
    Q("21/01/02,11:30:00+00")>>
CMGRPduHdr == <<T("+CMGR"), T(":"), T("0"), T(""), T("24")>>
CMGSHdr == <<T("+CMGS"), T(":"), T("12")>>
CSCAHdr == <<T("+CSCA"), T(":"), Q("+15550000"), T("145")>>
CSCAHdrNoType == <<T("+CSCA"), T(":"), Q("002B00310035")>>
CPMSAreasHdr ==
  <<T("+CPMS"), T(":"),
    T("("), Q("SM"), Q("SM"), Q("SM"), T(")"),
    T("("), Q("SM"), Q("SM"), Q("SM"), T(")"),
    T("("), Q("MT"), Q("MT"), Q("MT"), T(")")>>

\* The sequences over S of length at most n.
RECURSIVE SeqsUpTo(_, _)
SeqsUpTo(S, n) ==
  IF n = 0 THEN {<<>>}
  ELSE SeqsUpTo(S, n - 1)
         \cup {Append(q, x) : q \in {r \in SeqsUpTo(S, n - 1) : Len(r) = n - 1}, x \in S}

\* The replies to +CMGL made of n entries, entry i being CMGLHdr(i) followed
\* by up to MaxBodyLines lines of text, and ended by OK.
RECURSIVE ListEntries(_, _)
ListEntries(i, n) ==
  IF i > n THEN {<<>>}
  ELSE {<<CMGLHdr(i)>> \o b \o rest :
          b \in SeqsUpTo({TextLine}, MaxBodyLines), rest \in ListEntries(i + 1, n)}

ListReplies ==
  UNION {{e \o <<OKLine>> : e \in ListEntries(1, n)} : n \in 0..MaxEntries}

Mnemonic(line) ==
  IF Len(line) >= 2 /\ line[1] = T("AT") /\ ~line[2].q /\ line[2].s \in PlusNames
  THEN line[2].s ELSE ""

IsBodyLine(line) == \E i \in 1..Len(line) : line[i] = CtrlZ

\* The reply lines the device may give to a line written to it.  mode is
\* the device's message format (+CMGF): "text" or "pdu".
ReplyLines(line, mode) ==
  IF IsBodyLine(line) THEN {<<CMGSHdr, OKLine>>, <<ERRORLine>>}
  ELSE CASE Mnemonic(line) = "+CMGR" ->
              IF mode = "pdu"
              THEN {<<CMGRPduHdr, PduLine, OKLine>>, <<ERRORLine>>}
              ELSE {<<CMGRHdr, TextLine, OKLine>>, <<CMGRHdr, OKLine, OKLine>>,
                    <<CMGRHdr, PrefixText, OKLine>>,
                    <<CMGRHdr, PrefixFinalText, OKLine>>, <<CMSLine>>}
         [] Mnemonic(line) = "+CMGL" ->
              ListReplies \cup {<<CMGLHdr(1), TextLine, CMSLine>>, <<ERRORLine>>}
         [] Mnemonic(line) = "+CMGS" -> {<<Prompt>>, <<CMSLine>>}
         [] Mnemonic(line) = "+CPMS" -> {<<CPMSAreasHdr, OKLine>>, <<ERRORLine>>}
         [] Mnemonic(line) = "+CSCA" /\ line[3] = T("?") ->
              {<<CSCAHdr, OKLine>>, <<CSCAHdrNoType, OKLine>>, <<OKLine>>,
               <<ERRORLine>>}
         [] OTHER -> {<<OKLine>>, <<ERRORLine>>}

\* On the wire every line ends with CR LF, except the data prompt "> ",
\* which the device sends without a terminator; a reply starts with an
\* empty line.
Raw(line) == IF line = Prompt THEN line ELSE line \o <<CRLF>>

RawScript(lines) == <<<<CRLF>>>> \o [i \in 1..Len(lines) |-> Raw(lines[i])]

\* Lines the device sends on its own: a new-message notification, and the
\* text line of a directly routed message (+CNMI mt=2), which is whatever
\* its sender wrote.
CMTILine == <<T("+CMTI"), T(":"), Q("SM"), T("4")>>
StrayLine == <<T("+CMGL"), T(":"), T("9"), Q("REC UNREAD"), T("8")>>
Notifs == {CMTILine, StrayLine}

\* The device's format mode after a +CMGF=<n> that it answered with OK.
ModeAfter(line, reply, mode) ==
  IF Mnemonic(line) = "+CMGF" /\ reply = <<OKLine>> /\ Len(line) >= 4
  THEN IF line[4] = T("0") THEN "pdu" ELSE "text"
  ELSE mode

--------------------------------------------------------------------------
(* State *)

VARIABLES
  echo,        \* listen: the last transmitted line, trimmed
  last,        \* listen: the +XXXX token of the last matching command
  header,      \* listen: the pending reply header ("" if none)
  body,        \* listen: the text accumulated for the header
  epc,         \* listen: "select", blocked in "sendCont" / "sendFinal"
               \*   (self.rx <- packet), or "panicked"
  epkt,        \* listen: the packet being delivered on rx
  eline,       \* listen: the line being processed while blocked
  rd,          \* lineChannel's goroutine: position, buffer, line
  dscript,     \* device: the chunks it has still to send
  dmode,       \* device: message format, "text" or "pdu"
  unsol,       \* device: the lines it has sent on its own
  written,     \* transport: the lines written by port.Write, in order
  oob,         \* Modem.OOB: the buffered out-of-band channel
  closed,      \* Close has closed OOB, rx and the port
  cl,          \* the caller contexts
  nterm,       \* history: terminal packets received since the last command
  outstanding, \* history: commands written whose terminal packet no caller
               \*   has received
  hdrStray,    \* history: header is a line sent unsolicited while idle
  pktStray,    \* history: epkt was built from such a line
  strayDelivered, \* history: such a packet was received by a caller
  oobParsed,   \* history: kinds of the packets parsed from lines sent
               \*   unsolicited while no command was outstanding
  dreply,      \* history: the reply lines chosen for the last line written
  readErrs,    \* history: number of failed transport reads
  EncodeMode,  \* package variable: "GSM" or "UCS2"
  SMSCGsm,     \* package variable: service-center address kept for GSM
  SMSCUcs2,    \* package variable: service-center address kept for UCS2
  lastStep,    \* history: the branch the engine took for the last line
  werrs,       \* history: number of failed transport writes
  fx           \* a call of a pure function: its input, its result

vars ==
  <<echo, last, header, body, epc, epkt, eline, rd, dscript, dmode, unsol,
    written, oob, closed, cl, nterm, outstanding, hdrStray, pktStray,
    strayDelivered, oobParsed, dreply, readErrs, EncodeMode, SMSCGsm,
    SMSCUcs2, lastStep, werrs, fx>>

modeVars == <<EncodeMode, SMSCGsm, SMSCUcs2>>
restVars == <<werrs, fx>>

engineVars == <<echo, last, header, body, epc, epkt, eline>>
ghostVars == <<nterm, outstanding, hdrStray, pktStray, strayDelivered, oobParsed>>

Callers == {1, 2}

--------------------------------------------------------------------------
(* The public API: each call as the sequence of its channel operations *)

\* mode0 is history: the value of EncodeMode when the call started.
Idle(prog) ==
  [prog |-> prog, op |-> "idle", at |-> "", wait |-> "none", res |-> <<>>,
   pkt |-> NoPkt, err |-> FALSE, ret |-> "", nrx |-> 0, mode0 |-> ""]

ModeOps == {"ChangeToUCS2", "ChangeToGSM"}

ModeOf(op) == IF op = "ChangeToUCS2" THEN "UCS2" ELSE "GSM"

FirstLabel(op) ==
  CASE op \in {"GetMessagePDU", "SendMessagePDU"} -> "f0"
    [] op \in ModeOps -> "cscs"
    [] op = "SendMessage" -> "cmd"
    [] op = "Close" -> "close"
    [] OTHER -> "send"

\* unicodeEncode: the UTF-16 code units of the text as four hex digits each
\* (for the texts the calls of this model send).
unicodeEncode(s) ==
  CASE s = "hello" -> "00680065006c006c006f"
    [] s = "+15551234" -> "002b00310035003500350031003200330034"
    [] OTHER -> s

\* SendMessage encodes the telephone and the body when EncodeMode is UCS2.
Encoded(s) == IF EncodeMode = "UCS2" THEN unicodeEncode(s) ELSE s

\* The line a caller hands to the engine on self.tx at label at.
TxLine(op, at) ==
  CASE at = "f0" -> formatCommand(<<T("+CMGF")>>, <<IntV("0")>>)
    [] at = "f1" -> formatCommand(<<T("+CMGF")>>, <<IntV("1")>>)
    [] at = "read" -> formatCommand(<<T("+CMGR")>>, <<IntV("1")>>)
    [] at = "cmd" ->
         IF op = "SendMessagePDU"
         THEN formatCommand(<<T("+CMGS")>>, <<IntV("24")>>)
         ELSE formatCommand(<<T("+CMGS")>>, <<StrV(Encoded("+15551234"))>>)
    [] at = "body" ->
         (IF op = "SendMessagePDU" THEN PduLine ELSE <<T(Encoded(TextLine[1].s))>>)
           \o <<CtrlZ>>
    [] at = "cscs" -> formatCommand(<<T("+CSCS")>>, <<StrV(ModeOf(op))>>)
    [] at = "csmp" ->
         formatCommand(<<T("+CSMP")>>,
                       <<IntV("49"), IntV("167"), IntV("0"),
                         IntV(IF op = "ChangeToUCS2" THEN "8" ELSE "0")>>)
    [] at = "q" -> formatCommand(<<T("+CSCA"), T("?")>>, <<>>)
    [] op = "GetMessage" -> formatCommand(<<T("+CMGR")>>, <<IntV("1")>>)
    [] op = "DeleteMessage" -> formatCommand(<<T("+CMGD")>>, <<IntV("1")>>)
    [] op = "ListMessages" -> formatCommand(<<T("+CMGL")>>, <<StrV("ALL")>>)
    [] op = "SupportedStorageAreas" -> formatCommand(<<T("+CPMS")>>, <<StrV("?")>>)
    [] OTHER -> formatCommand(<<>>, <<>>)

\* setSMSC's second command carries the arguments of the +CSCA reply.
CallerLine(r) ==
  IF r.at = "set" THEN formatCommand(<<T("+CSCA")>>, r.pkt.args)
  ELSE TxLine(r.op, r.at)

\* A panic in the caller's goroutine.
Panicked(r) == [r EXCEPT !.wait = "panic"]

Return(r, err) ==
  [r EXCEPT !.op = "idle", !.at = "", !.wait = "none", !.ret = r.op, !.err = err]

\* send / sendBody after self.tx <- line: sendBody hands the body next,
\* everything else waits on self.rx.
AfterTx(r) ==
  IF r.at = "cmd" THEN [r EXCEPT !.at = "body", !.wait = "tx"]
  ELSE [r EXCEPT !.wait = "rx"]

\* GetMessagePDU after the +CMGR round trip: an error returns at once.
PDUAfterRead(r, p) ==
  IF p.kind = "ERROR" THEN Return([r EXCEPT !.pkt = p], TRUE)
  ELSE [r EXCEPT !.at = "f1", !.wait = "tx", !.pkt = p]

\* ListMessages' loop over the packets of the reply.
ListLoop(r, p) ==
  IF p.kind = "Message"
  THEN LET r2 == [r EXCEPT !.res = Append(r.res, p), !.pkt = p]
       IN IF p.last THEN Return(r2, FALSE)
          ELSE [r2 EXCEPT !.at = "loop", !.wait = "rx"]
  ELSE Return([r EXCEPT !.res = <<>>, !.pkt = p], TRUE)

\* ChangeToUCS2 / ChangeToGSM with setSMSC: each step returns on an error;
\* r.(SMSCAddress) panics on a packet of another type.
ModeSwitch(r, p) ==
  IF p.kind = "ERROR" THEN Return([r EXCEPT !.pkt = p], TRUE)
  ELSE CASE r.at = "cscs" -> [r EXCEPT !.at = "csmp", !.wait = "tx", !.pkt = p]
         [] r.at = "csmp" -> [r EXCEPT !.at = "q", !.wait = "tx", !.pkt = p]
         [] r.at = "q" ->
              IF p.kind = "SMSCAddress"
              THEN [r EXCEPT !.at = "set", !.wait = "tx", !.pkt = p]
              ELSE Panicked([r EXCEPT !.pkt = p])
         [] OTHER -> Return(r, FALSE)

\* setSMSC keeping the address under the other mode's variable.
StoreSMSCSwapped(r, p, mode, cur) ==
  IF r.op \in ModeOps /\ r.at = "q" /\ ModeOf(r.op) # mode /\ p.kind = "SMSCAddress"
  THEN p.args[1] ELSE cur

\* setSMSC: SMSCUcs2 / SMSCGsm = smsc.Args[0] after the +CSCA? round trip.
StoreSMSC(r, p, mode, cur) ==
  IF r.op \in ModeOps /\ r.at = "q" /\ ModeOf(r.op) = mode /\ p.kind = "SMSCAddress"
  THEN p.args[1] ELSE cur

\* A caller after response := <-self.rx gave it packet p.
AfterRx(r0, p) ==
  LET r == [r0 EXCEPT !.nrx = r0.nrx + 1]
      isErr == p.kind = "ERROR"
  IN CASE r.op = "GetMessage" ->
            Return([r EXCEPT !.pkt = p], isErr \/ p.kind # "Message")
       [] r.op = "DeleteMessage" -> Return([r EXCEPT !.pkt = p], isErr)
       [] r.op = "SupportedStorageAreas" ->
            Return([r EXCEPT !.pkt = p], isErr \/ p.kind # "StorageAreas")
       [] r.op = "ListMessages" ->
            IF r.at = "send" /\ isErr THEN Return([r EXCEPT !.pkt = p], TRUE)
            ELSE IF r.at = "send" /\ p.kind = "OK"
                 THEN Return([r EXCEPT !.pkt = p], FALSE)
                 ELSE ListLoop(r, p)
       [] r.op = "GetMessagePDU" ->
            IF r.at = "f0" THEN [r EXCEPT !.at = "read", !.wait = "tx"]
            ELSE IF r.at = "read" THEN PDUAfterRead(r, p)
                 ELSE Return(r, r.pkt.kind # "Message")
       [] r.op = "SendMessage" -> Return([r EXCEPT !.pkt = p], isErr)
       [] r.op = "SendMessagePDU" ->
            IF r.at = "f0" THEN [r EXCEPT !.at = "cmd", !.wait = "tx"]
            ELSE IF r.at = "body"
                 THEN [r EXCEPT !.at = "f1", !.wait = "tx", !.pkt = p, !.err = isErr]
                 ELSE Return(r, r.err)
       [] r.op \in ModeOps -> ModeSwitch(r, p)
       [] OTHER -> Return(r, isErr)

--------------------------------------------------------------------------
(* Initial states *)

\* The engine as Open leaves it: init's last command was AT+CNMI=2,2,0,1,0.
CNMICmd ==
  formatCommand(<<T("+CNMI")>>,
                <<IntV("2"), IntV("2"), IntV("0"), IntV("1"), IntV("0")>>)

NoStep == [br |-> "", hadHeader |-> FALSE, unsol |-> FALSE]

NoFx ==
  [fn |-> "", in |-> <<>>, mid |-> <<>>, out |-> <<>>, done |-> FALSE,
   panic |-> FALSE]

InitModem(progs1, progs2) ==
  /\ echo = TrimRight(CNMICmd)
  /\ last = "+CNMI"
  /\ header = <<>>
  /\ body = <<>>
  /\ epc = "select"
  /\ epkt = NoPkt
  /\ eline = <<>>
  /\ rd = [pc |-> "read", buf |-> <<>>, line |-> <<>>, unsol |-> FALSE]
  /\ dscript = <<>>
  /\ dmode = "text"
  /\ unsol = <<>>
  /\ written = <<>>
  /\ oob = <<>>
  /\ closed = FALSE
  /\ \E p1 \in progs1, p2 \in progs2 : cl = [c \in Callers |-> IF c = 1 THEN Idle(p1) ELSE Idle(p2)]
  /\ nterm = 0
  /\ outstanding = 0
  /\ hdrStray = FALSE
  /\ pktStray = FALSE
  /\ strayDelivered = FALSE
  /\ oobParsed = <<>>
  /\ dreply = <<>>
  /\ readErrs = 0
  /\ lastStep = NoStep
  /\ werrs = 0

InitWith(progs1, progs2) ==
  /\ InitModem(progs1, progs2)
  /\ fx = NoFx
  /\ EncodeMode = "GSM"
  /\ SMSCGsm = NilV
  /\ SMSCUcs2 = NilV

SendOps == {"GetMessage", "DeleteMessage", "ListMessages", "SupportedStorageAreas"}

Programs(S) == SeqsUpTo(S, MaxOps) \ {<<>>}

Init == InitWith(Programs(SendOps), {<<>>})

--------------------------------------------------------------------------
(* Modem.listen: the protocol engine *)

\* reQuestion.FindStringSubmatch(line)[1]: the +XXXX token after the first
\* "AT" that one follows ("" when the pattern does not match).
reQuestionMatch(line) ==
  LET hits == {i \in 1..(Len(line) - 1) :
                 /\ line[i] = T("AT")
                 /\ ~line[i + 1].q /\ line[i + 1].s \in PlusNames}
  IN IF hits = {} THEN ""
     ELSE line[(CHOOSE i \in hits : \A j \in hits : i <= j) + 1].s

Engine(e, l, h, b, pc, pkt, ln) ==
  [echo |-> e, last |-> l, header |-> h, body |-> b, pc |-> pc, pkt |-> pkt,
   line |-> ln]

\* The branches with the echo test made only when no header is pending.
LineBranchHeaderFirst(e, line) ==
  CASE e.header # <<>> /\ ~(e.last # "" /\ startsWith(line, e.last))
         /\ ~isFinalStatus(line) -> "body"
    [] line = e.echo -> "echo"
    [] e.last # "" /\ startsWith(line, e.last) -> "prefix"
    [] isFinalStatus(line) -> "final"
    [] line = Prompt -> "prompt"
    [] OTHER -> "oob"

\* The branch of the loop's `case line := <-in` that a line takes.
LineBranch(e, line) ==
  CASE line = e.echo -> "echo"
    [] e.last # "" /\ startsWith(line, e.last) -> "prefix"
    [] isFinalStatus(line) -> "final"
    [] e.header # <<>> -> "body"
    [] line = Prompt -> "prompt"
    [] OTHER -> "oob"

\* A packet to put on self.rx: the engine blocks in the send (a panic in
\* the parser ends the process).
Deliver(e, pkt, line, pc) ==
  IF pkt.kind = "panic" THEN [e EXCEPT !.pc = "panicked"]
  ELSE [e EXCEPT !.pc = pc, !.pkt = pkt, !.line = line]

\* The loop without the flush of a pending header: a further header line
\* simply replaces it.
listenLineNoFlush(e, line) ==
  LET br == LineBranch(e, line)
  IN CASE br = "prefix" -> [e EXCEPT !.header = line, !.body = <<>>]
       [] br = "final" ->
            Deliver(e, parsePacket(line, e.header, e.body), line, "sendFinal")
       [] br = "body" -> [e EXCEPT !.body = e.body \o line]
       [] OTHER -> e

\* `case line := <-in`, up to the first channel send.
listenLine(e, line) ==
  LET br == LineBranch(e, line)
  IN CASE br = "echo" -> e
       [] br = "prefix" ->
            IF e.header # <<>>
            THEN Deliver(e, parsePacket(<<>>, e.header, e.body), line, "sendCont")
            ELSE [e EXCEPT !.header = line, !.body = <<>>]
       [] br = "final" ->
            Deliver(e, parsePacket(line, e.header, e.body), line, "sendFinal")
       [] br = "body" -> [e EXCEPT !.body = e.body \o line]
       [] br = "prompt" -> e
       [] OTHER ->
            IF parsePacket(OKLine, line, <<>>).kind = "panic"
            THEN [e EXCEPT !.pc = "panicked"]
            ELSE e

\* What the out-of-band branch puts on self.OOB for a line: the send is
\* commented out in the source, so nothing.
oobSend(ch, line) == ch

\* The delivery without the reset of header and body after a terminal
\* status.
listenDeliveredKeepsText(e) ==
  IF e.pc = "sendCont"
  THEN [e EXCEPT !.header = e.line, !.body = <<>>, !.pc = "select",
                 !.pkt = NoPkt, !.line = <<>>]
  ELSE [e EXCEPT !.pc = "select", !.pkt = NoPkt, !.line = <<>>]

\* After self.rx <- packet went through.
listenDelivered(e) ==
  IF e.pc = "sendCont"
  THEN [e EXCEPT !.header = e.line, !.body = <<>>, !.pc = "select",
                 !.pkt = NoPkt, !.line = <<>>]
  ELSE [e EXCEPT !.header = <<>>, !.body = <<>>, !.pc = "select",
                 !.pkt = NoPkt, !.line = <<>>]

\* `case line := <-self.tx`: last is set only when the pattern matches.
listenTx(e, line) ==
  LET m == reQuestionMatch(line)
  IN [e EXCEPT !.last = IF m # "" THEN m ELSE e.last,
               !.echo = TrimRight(line)]

Eng == Engine(echo, last, header, body, epc, epkt, eline)

SetEngine(e) ==
  /\ echo' = e.echo
  /\ last' = e.last
  /\ header' = e.header
  /\ body' = e.body
  /\ epc' = e.pc
  /\ epkt' = e.pkt
  /\ eline' = e.line

Alive == epc # "panicked" /\ \A c \in Callers : cl[c].wait # "panic"

--------------------------------------------------------------------------
(* Actions *)

\* A caller context starts the next call of its program.
CallerCall(c) ==
  /\ Alive
  /\ cl[c].op = "idle"
  /\ cl[c].prog # <<>>
  /\ LET op == Head(cl[c].prog)
     IN cl' = [cl EXCEPT ![c] =
                 [prog |-> Tail(cl[c].prog), op |-> op, at |-> FirstLabel(op),
                  wait |-> IF op = "Close" THEN "close" ELSE "tx",
                  res |-> <<>>, pkt |-> NoPkt, err |-> FALSE, ret |-> "",
                  nrx |-> 0, mode0 |-> EncodeMode]]
        /\ EncodeMode' = IF op \in ModeOps THEN ModeOf(op) ELSE EncodeMode
  /\ UNCHANGED <<engineVars, rd, dscript, dmode, unsol, written, oob, closed,
                 ghostVars, dreply, readErrs, SMSCGsm, SMSCUcs2, lastStep,
                 restVars>>

\* self.tx <- line meets `case line := <-self.tx`: the engine records the
\* prefix and the echo and writes the line; the device picks its answer.
EngineTx(c) ==
  /\ Alive
  /\ epc = "select"
  /\ cl[c].wait = "tx"
  /\ LET line == CallerLine(cl[c])
         isCmd == cl[c].at # "body"
     IN /\ SetEngine(listenTx(Eng, line))
        /\ written' = Append(written, line)
        /\ \E reply \in (IF closed THEN {<<>>} ELSE ReplyLines(line, dmode)),
              withEcho \in BOOLEAN :
             /\ dscript' = dscript
                  \o (IF withEcho /\ ~closed THEN <<Raw(TrimRight(line))>> ELSE <<>>)
                  \o (IF reply = <<>> THEN <<>> ELSE RawScript(reply))
             /\ dmode' = ModeAfter(line, reply, dmode)
             /\ dreply' = reply
        /\ nterm' = IF isCmd THEN 0 ELSE nterm
        /\ outstanding' = IF isCmd THEN outstanding + 1 ELSE outstanding
  /\ cl' = [cl EXCEPT ![c] = AfterTx(cl[c])]
  /\ UNCHANGED <<rd, unsol, oob, closed, hdrStray, pktStray, strayDelivered,
                 oobParsed, readErrs, modeVars, lastStep, restVars>>

\* buffer.ReadString(10): chunks are gathered up to a line feed; the line
\* is trimmed, and an empty one is skipped.
readLine(r, chunk, isUnsol) ==
  LET buf == r.buf \o chunk
      complete == Len(chunk) > 0 /\ chunk[Len(chunk)].s \in {"\r\n", "\n"}
      line == TrimRight(buf)
  IN IF ~complete THEN [r EXCEPT !.buf = buf]
     ELSE IF line = <<>> THEN [r EXCEPT !.buf = <<>>]
          ELSE [pc |-> "send", buf |-> <<>>, line |-> line, unsol |-> isUnsol]

DeviceChunks ==
  {[k |-> "reply", raw |-> Head(dscript)] : x \in IF dscript # <<>> THEN {1} ELSE {}}
    \cup {[k |-> "unsol", raw |-> Raw(n)] :
            n \in IF Len(unsol) < MaxUnsol THEN Notifs ELSE {}}

ReaderRead ==
  /\ Alive
  /\ ~closed
  /\ rd.pc = "read"
  /\ \E ch \in DeviceChunks :
       /\ rd' = readLine(rd, ch.raw, ch.k = "unsol")
       /\ dscript' = IF ch.k = "reply" THEN Tail(dscript) ELSE dscript
       /\ unsol' = IF ch.k = "unsol" THEN Append(unsol, TrimRight(ch.raw)) ELSE unsol
  /\ UNCHANGED <<engineVars, dmode, written, oob, closed, cl, ghostVars,
                 dreply, readErrs, modeVars, lastStep, restVars>>

\* ret <- line meets `case line := <-in`.
EngineLine ==
  /\ Alive
  /\ epc = "select"
  /\ rd.pc = "send"
  /\ LET line == rd.line
         br == LineBranch(Eng, line)
         e2 == listenLine(Eng, line)
         idle == rd.unsol /\ outstanding = 0 /\ header = <<>>
     IN /\ SetEngine(e2)
        /\ oob' = IF br = "oob" /\ e2.pc # "panicked" THEN oobSend(oob, line) ELSE oob
        /\ hdrStray' = IF br = "prefix" /\ header = <<>> THEN idle ELSE hdrStray
        /\ pktStray' = IF e2.pc \in {"sendCont", "sendFinal"}
                       THEN hdrStray \/ (br = "final" /\ idle)
                       ELSE pktStray
        /\ oobParsed' =
             IF /\ br = "oob" /\ rd.unsol /\ outstanding = 0
                /\ parsePacket(OKLine, line, <<>>).kind \notin {"nil", "panic"}
             THEN Append(oobParsed, parsePacket(OKLine, line, <<>>).kind)
             ELSE oobParsed
        /\ lastStep' = [br |-> br, hadHeader |-> header # <<>>, unsol |-> rd.unsol]
  /\ rd' = [rd EXCEPT !.pc = "read", !.line = <<>>, !.unsol = FALSE]
  /\ UNCHANGED <<dscript, dmode, unsol, written, closed, cl, nterm,
                 outstanding, strayDelivered, dreply, readErrs, modeVars,
                 restVars>>

\* self.rx <- packet meets a caller's <-self.rx.
EngineDeliver(c) ==
  /\ Alive
  /\ ~closed
  /\ epc \in {"sendCont", "sendFinal"}
  /\ cl[c].wait = "rx"
  /\ cl' = [cl EXCEPT ![c] = AfterRx(cl[c], epkt)]
  /\ SMSCGsm' = StoreSMSC(cl[c], epkt, "GSM", SMSCGsm)
  /\ SMSCUcs2' = StoreSMSC(cl[c], epkt, "UCS2", SMSCUcs2)
  /\ SetEngine(listenDelivered(Eng))
  /\ nterm' = IF epc = "sendFinal" THEN nterm + 1 ELSE nterm
  /\ outstanding' = IF epc = "sendFinal" /\ outstanding > 0
                    THEN outstanding - 1 ELSE outstanding
  /\ strayDelivered' = (strayDelivered \/ pktStray)
  /\ hdrStray' = FALSE
  /\ pktStray' = FALSE
  /\ UNCHANGED <<rd, dscript, dmode, unsol, written, oob, closed, oobParsed,
                 dreply, readErrs, EncodeMode, lastStep, restVars>>

Next ==
  \/ \E c \in Callers : CallerCall(c)
  \/ \E c \in Callers : EngineTx(c)
  \/ ReaderRead
  \/ EngineLine
  \/ \E c \in Callers : EngineDeliver(c)

Spec == Init /\ [][Next]_vars

--------------------------------------------------------------------------
(* Shutdown and transport failure *)

\* Modem.Close: close(OOB), close(rx), port.Close(); the engine and the
\* reader are neither signalled nor joined.
Close(c) ==
  /\ Alive
  /\ cl[c].wait = "close"
  /\ ~closed
  /\ closed' = TRUE
  /\ cl' = [cl EXCEPT ![c] = Return(cl[c], FALSE)]
  /\ UNCHANGED <<engineVars, rd, dscript, dmode, unsol, written, oob,
                 ghostVars, dreply, readErrs, modeVars, lastStep, restVars>>

\* self.rx <- packet on the closed channel panics.
EnginePanicClosed ==
  /\ Alive
  /\ closed
  /\ epc \in {"sendCont", "sendFinal"}
  /\ epc' = "panicked"
  /\ UNCHANGED <<echo, last, header, body, epkt, eline, rd, dscript, dmode,
                 unsol, written, oob, closed, cl, ghostVars, dreply, readErrs,
                 modeVars, lastStep, restVars>>

\* <-self.rx on the closed channel yields the zero value, a nil Packet.
CallerRxClosed(c) ==
  /\ Alive
  /\ closed
  /\ cl[c].wait = "rx"
  /\ cl' = [cl EXCEPT ![c] = AfterRx(cl[c], NilPkt(<<>>))]
  /\ SMSCGsm' = StoreSMSC(cl[c], NilPkt(<<>>), "GSM", SMSCGsm)
  /\ SMSCUcs2' = StoreSMSC(cl[c], NilPkt(<<>>), "UCS2", SMSCUcs2)
  /\ UNCHANGED <<engineVars, rd, dscript, dmode, unsol, written, oob, closed,
                 ghostVars, dreply, readErrs, EncodeMode, lastStep, restVars>>

MaxReadErrs == 2

\* buffer.ReadString(10) fails: `line, _ :=` drops the error, the text read
\* so far is the line, and the loop goes on.
readFailed(r) ==
  LET line == TrimRight(r.buf)
  IN IF line = <<>> THEN [r EXCEPT !.buf = <<>>]
     ELSE [pc |-> "send", buf |-> <<>>, line |-> line, unsol |-> FALSE]

ReadError ==
  /\ Alive
  /\ rd.pc = "read"
  /\ readErrs < MaxReadErrs
  /\ rd' = readFailed(rd)
  /\ readErrs' = readErrs + 1
  /\ UNCHANGED <<engineVars, dscript, dmode, unsol, written, oob, closed, cl,
                 ghostVars, dreply, modeVars, lastStep, restVars>>

MaxWriteErrs == 1

\* `case line := <-self.tx` when self.port.Write fails: its result is not
\* looked at, the device receives nothing, and the engine goes back to its
\* select with echo and last set.
EngineTxWriteError(c) ==
  /\ Alive
  /\ epc = "select"
  /\ cl[c].wait = "tx"
  /\ werrs < MaxWriteErrs
  /\ SetEngine(listenTx(Eng, CallerLine(cl[c])))
  /\ cl' = [cl EXCEPT ![c] = AfterTx(cl[c])]
  /\ werrs' = werrs + 1
  /\ nterm' = IF cl[c].at # "body" THEN 0 ELSE nterm
  /\ dreply' = <<>>
  /\ UNCHANGED <<rd, dscript, dmode, unsol, written, oob, closed, outstanding,
                 hdrStray, pktStray, strayDelivered, oobParsed, readErrs,
                 modeVars, lastStep, fx>>

--------------------------------------------------------------------------
(* Specifications *)

\* One caller, one ListMessages call.
InitList == InitWith({<<"ListMessages">>}, {<<>>})
SpecList == InitList /\ [][Next]_vars

\* One caller, the calls that make several round trips or carry a body.
InitCalls ==
  InitWith({<<"SendMessage">>, <<"SendMessagePDU">>, <<"GetMessagePDU">>}, {<<>>})
SpecCalls == InitCalls /\ [][Next]_vars

\* Two caller contexts, one call each.
InitTwo ==
  InitWith({<<"GetMessage">>, <<"DeleteMessage">>},
           {<<"DeleteMessage">>, <<"SupportedStorageAreas">>})
SpecTwo == InitTwo /\ [][Next]_vars

\* A call in one context, Close in the same or in another one.
InitClose ==
  InitWith({<<"GetMessage">>, <<"GetMessage", "Close">>}, {<<>>, <<"Close">>})
NextClose ==
  \/ Next
  \/ \E c \in Callers : Close(c)
  \/ EnginePanicClosed
  \/ \E c \in Callers : CallerRxClosed(c)
SpecClose == InitClose /\ [][NextClose]_vars

\* One caller, one or two mode switches.
InitMode ==
  /\ InitModem(SeqsUpTo(ModeOps, MaxOps) \ {<<>>}, {<<>>})
  /\ EncodeMode \in {"GSM", "UCS2"}
  /\ SMSCGsm = NilV
  /\ SMSCUcs2 = NilV
  /\ fx = NoFx
SpecMode == InitMode /\ [][Next]_vars

\* One caller, a transport whose reads may fail.
InitReader == InitWith({<<"GetMessage">>, <<"SendMessage">>}, {<<>>})
NextReader ==
  \/ Next
  \/ ReadError
SpecReader == InitReader /\ [][NextReader]_vars

\* One caller, a transport whose writes may fail.
InitWrite == InitWith({<<"GetMessage">>, <<"DeleteMessage">>, <<"SendMessage">>}, {<<>>})
NextWrite ==
  \/ Next
  \/ \E c \in Callers : EngineTxWriteError(c)
SpecWrite == InitWrite /\ [][NextWrite]_vars

\* The formatter on its own: formatCommand applied to a command and up to
\* MaxArgs arguments.
MaxArgs == 2

ArgValues == {StrV("?"), StrV("ALL"), StrV(""), IntV("1"), OtherV("1.5"), NilV}

CmdTexts == {<<>>, <<T("Z")>>, <<T("+CMGR")>>, <<T("+CSCA"), T("?")>>}

InitFormat ==
  /\ InitModem({<<>>}, {<<>>})
  /\ EncodeMode = "GSM"
  /\ SMSCGsm = NilV
  /\ SMSCUcs2 = NilV
  /\ \E cmd \in CmdTexts, args \in SeqsUpTo(ArgValues, MaxArgs) :
       fx = [NoFx EXCEPT !.fn = "formatCommand", !.in = <<cmd, args>>]

FormatCall ==
  /\ fx.fn = "formatCommand"
  /\ ~fx.done
  /\ fx' = [fx EXCEPT !.done = TRUE,
                      !.panic = formatCommandPanics(fx.in[2]),
                      !.out = IF formatCommandPanics(fx.in[2]) THEN <<>>
                              ELSE formatCommand(fx.in[1], fx.in[2])]
  /\ UNCHANGED <<engineVars, rd, dscript, dmode, unsol, written, oob, closed,
                 cl, ghostVars, dreply, readErrs, modeVars, lastStep, werrs>>

SpecFormat == InitFormat /\ [][FormatCall]_vars

\* The codec on its own: gsmEncode applied to a string of up to MaxGsmLen
\* characters, then gsmDecode applied to the result.
MaxGsmLen == 2

\* The keys of the encode table, a letter and the escape character.
GsmAlphabet == EncodeKeys \cup {65, 27}

InitGsm ==
  /\ InitModem({<<>>}, {<<>>})
  /\ EncodeMode = "GSM"
  /\ SMSCGsm = NilV
  /\ SMSCUcs2 = NilV
  /\ \E s \in SeqsUpTo(GsmAlphabet, MaxGsmLen) \ {<<>>} :
       fx = [NoFx EXCEPT !.fn = "gsmEncode", !.in = s]

GsmEncodeCall ==
  /\ fx.fn = "gsmEncode"
  /\ fx' = [fx EXCEPT !.fn = "gsmDecode", !.mid = gsmEncode(fx.in)]
  /\ UNCHANGED <<engineVars, rd, dscript, dmode, unsol, written, oob, closed,
                 cl, ghostVars, dreply, readErrs, modeVars, lastStep, werrs>>

GsmDecodeCall ==
  /\ fx.fn = "gsmDecode"
  /\ ~fx.done
  /\ fx' = [fx EXCEPT !.done = TRUE, !.out = gsmDecode(fx.mid)]
  /\ UNCHANGED <<engineVars, rd, dscript, dmode, unsol, written, oob, closed,
                 cl, ghostVars, dreply, readErrs, modeVars, lastStep, werrs>>

NextGsm ==
  \/ GsmEncodeCall
  \/ GsmDecodeCall

SpecGsm == InitGsm /\ [][NextGsm]_vars

--------------------------------------------------------------------------
(* Claims *)

IsErrorStatus(st) ==
  st = ERRORLine \/ Contains(st, "+CMS ERROR") \/ Contains(st, "+CME ERROR")

\* C1: for a single caller, every command handed to the engine by send has
\* had exactly one terminal Packet received from the response channel when
\* the caller hands over its next command, and never more than one (stated
\* for the runs in which the device sends no line on its own).
C1_OneTerminalPerCommand ==
  unsol = <<>> =>
    /\ nterm <= 1
    /\ \A c \in Callers :
         (cl[c].wait = "tx" /\ cl[c].at # "body" /\ written # <<>>) => nterm = 1

\* C2: a packet built from a line that the device sent unsolicited, while no
\* command was outstanding and no header was pending, is never received
\* from the response channel.
C2_UnsolicitedNeverOnRx == ~strayDelivered

\* C3: the packets parsed from unsolicited lines received with no command
\* outstanding are exactly the packets put on the out-of-band channel, in
\* order (the engine never blocks between parsing and sending).
C3_UnsolicitedOnOOB ==
  oobParsed = [i \in 1..Len(oob) |-> oob[i].kind]

\* C4: for a +CMGL reply of n >= 0 entries ended by OK, with no unsolicited
\* line that starts with +CMGL, ListMessages returns without error exactly
\* n Messages in arrival order, only the last one flagged last-in-list, and
\* has read max(n, 1) packets from the response channel.
ListHeaders(reply) == SelectSeq(reply, LAMBDA l : startsWith(l, "+CMGL"))

NoStrayListLine == \A i \in 1..Len(unsol) : ~startsWith(unsol[i], "+CMGL")

C5_ErrorStatusGivesError ==
  \A c \in Callers :
    (unsol = <<>> /\ cl[c].ret # "" /\ IsErrorStatus(cl[c].pkt.st)) =>
      /\ cl[c].err
      /\ cl[c].pkt.kind = "ERROR"
      /\ oob = <<>>

\* C6: at most one command is outstanding: written to the transport with its
\* terminal Packet not yet received by a caller.
C6_OneOutstanding == outstanding <= 1

\* C7: a body-carrying call writes the command line and then the body with
\* 0x1A, and is never left handing over the body while the engine is left
\* delivering the terminal Packet of the command line (neither can move).
C7_SendBodyReturns ==
  \A c \in Callers :
    /\ ~(cl[c].at = "body" /\ cl[c].wait = "tx" /\ epc \in {"sendCont", "sendFinal"})
    /\ (cl[c].ret \in {"SendMessage", "SendMessagePDU"}) =>
         \E i \in 1..(Len(written) - 1) :
           /\ Mnemonic(written[i]) = "+CMGS"
           /\ IsBodyLine(written[i + 1])

\* C8: when GetMessagePDU returns after having written +CMGF=0, the last
\* +CMGF command written is +CMGF=1.
CMGFWrites == SelectSeq(written, LAMBDA l : Mnemonic(l) = "+CMGF")

C8_PDURestoresTextMode ==
  \A c \in Callers :
    (cl[c].ret = "GetMessagePDU") =>
      /\ Len(CMGFWrites) >= 2
      /\ CMGFWrites[Len(CMGFWrites)][4] = T("1")

\* C9: once Close has closed the channels the engine is never in a delivery
\* on the response channel.
C9_NoDeliveryAfterClose ==
  closed => epc \notin {"sendCont", "sendFinal"}

\* C10: after a failed transport read the Line Reader has stopped and holds
\* no line to hand on; it stops for no other reason.
C10_ReaderStopsOnError ==
  /\ readErrs > 0 => rd.pc = "stopped"
  /\ rd.pc = "stopped" => readErrs > 0

\* Nothing is on its way to the engine: the device has sent all it had to
\* send and the Line Reader holds no text.
Quiet == dscript = <<>> /\ rd.pc = "read" /\ rd.buf = <<>> /\ epc = "select"

\* C11: after a failed transport write the caller of send or sendBody does
\* not stay blocked on the response channel: it is never waiting there with
\* nothing on its way to the engine.
C11_WriteErrorSurfaces ==
  \A c \in Callers : ~(werrs > 0 /\ outstanding = 0 /\ Quiet /\ cl[c].wait = "rx")


\* The Packet kind a public operation needs.
NeededKind(op) ==
  CASE op \in {"GetMessage", "GetMessagePDU", "ListMessages"} -> "Message"
    [] op = "SupportedStorageAreas" -> "StorageAreas"
    [] op \in ModeOps -> "SMSCAddress"
    [] OTHER -> ""

\* C12: a call that needs a specific Packet kind and received a packet of
\* another kind, not ERROR (and not the OK that ends an empty list), has not
\* aborted the process, and once it has returned it has returned an error.
C12_WrongKindGivesError ==
  \A c \in Callers :
    (/\ NeededKind(cl[c].op) # "" \/ NeededKind(cl[c].ret) # ""
     /\ cl[c].pkt.kind \notin {"none", "ERROR", NeededKind(cl[c].op),
                               NeededKind(cl[c].ret)}
     /\ ~("ListMessages" \in {cl[c].op, cl[c].ret} /\ cl[c].pkt.kind = "OK")) =>
      /\ cl[c].wait # "panic"
      /\ cl[c].ret # "" => cl[c].err


\* C13: formatting a command with an argument that is neither a string nor
\* an integer does not abort: the call comes back, with no command line
\* produced.
C13_UnsupportedArgumentReported ==
  (fx.fn = "formatCommand" /\ fx.done /\ formatCommandPanics(fx.in[2])) =>
    ~fx.panic /\ fx.out = <<>>


\* C14: a string made of characters that are keys of the encode table and
\* are not in the escaped subset comes back unchanged from gsmEncode
\* followed by gsmDecode.
C14_GsmRoundTrip ==
  (/\ fx.fn = "gsmDecode" /\ fx.done
   /\ \A i \in 1..Len(fx.in) : fx.in[i] \in EncodeKeys \ EscapedKeys) =>
    fx.out = fx.in

\* C14's case: carriage return, encoded as 0x0A, has come back.
C14_Witness ==
  /\ fx.fn = "gsmDecode" /\ fx.done
  /\ fx.in = <<13>> /\ fx.mid = <<10>> /\ fx.out = <<13>>


\* C15: after an outgoing request is processed, expectedPrefix is what the
\* pattern AT(\+[A-Z]+) finds in that request's own text: its +XXXX token,
\* or nothing when the text does not match.
C15_PrefixFromOwnRequest ==
  (written # <<>> /\ werrs = 0) => last = reQuestionMatch(written[Len(written)])


\* The engine takes a line from the Line Reader in this step.
TakesLine == epc = "select" /\ rd.pc = "send" /\ rd'.pc = "read"

\* C16: a line that is not the echo and starts with a non-empty
\* expectedPrefix: with a header pending, the Packet parsed from the pending
\* header and body with an empty status (not last-in-list) is put on the
\* response channel, and once a caller has received it, that one time, body
\* is empty and header is the line; with no header pending the line becomes
\* the header and nothing is delivered.  A line that also reads as a
\* terminal status is treated the same way.
C16_PrefixLine ==
  [][/\ (TakesLine /\ rd.line # echo /\ last # "" /\ startsWith(rd.line, last)) =>
          IF header # <<>>
          THEN /\ epc' = "sendCont"
               /\ epkt' = parsePacket(<<>>, header, body)
               /\ epkt'.st = <<>> /\ ~epkt'.last
               /\ eline' = rd.line
               /\ oob' = oob /\ cl' = cl
          ELSE /\ epc' = "select"
               /\ header' = rd.line /\ body' = <<>>
               /\ oob' = oob /\ cl' = cl
     /\ (epc = "sendCont" /\ epc' # "sendCont") =>
          /\ epc' = "select"
          /\ header' = eline /\ body' = <<>>
          /\ oob' = oob
          /\ \E c \in Callers :
               /\ cl[c].wait = "rx"
               /\ cl' = [cl EXCEPT ![c] = AfterRx(cl[c], epkt)]
    ]_vars

\* C16's case: the first entry of a list was flushed by the header of the
\* second and received by the caller; the second header is pending.
C16_Witness ==
  /\ lastStep.br = "prefix" /\ lastStep.hadHeader
  /\ epc = "select" /\ header # <<>> /\ body = <<>>
  /\ \E c \in Callers :
       /\ cl[c].op = "ListMessages" /\ Len(cl[c].res) = 1
       /\ cl[c].pkt.st = <<>> /\ ~cl[c].pkt.last /\ cl[c].pkt.body # <<>>


\* C17: when the engine has finished with a terminal-status line (its
\* Packet has been received) header and body are both empty, and in every
\* state a non-empty body comes with a non-empty header.
C17_TextResetAfterTerminal ==
  /\ [](body # <<>> => header # <<>>)
  /\ [][(epc = "sendFinal" /\ epc' # "sendFinal") =>
          (epc' = "select" /\ header' = <<>> /\ body' = <<>>)]_vars

\* C17's case: a reply with a header and a body was ended by OK, its Packet
\* was received, and the engine holds no text.
C17_Witness ==
  /\ lastStep.br = "final" /\ lastStep.hadHeader
  /\ epc = "select" /\ header = <<>> /\ body = <<>>
  /\ \E c \in Callers :
       /\ cl[c].ret = "GetMessage" /\ cl[c].pkt.st = OKLine
       /\ cl[c].pkt.body # <<>>


\* C18: a line equal to the current echo is discarded in every engine
\* state: echo, expectedPrefix, header and body are unchanged, the engine is
\* back in its select, and nothing is put on the response channel or the
\* out-of-band channel.
C18_EchoDiscarded ==
  [][(TakesLine /\ rd.line = echo) =>
       /\ UNCHANGED <<echo, last, header, body, oob, cl>>
       /\ epc' = "select"]_vars

\* C18's case: the echo of a command was discarded while a header was
\* pending.
C18_Witness ==
  /\ lastStep.br = "echo" /\ lastStep.hadHeader
  /\ header # <<>> /\ epc = "select"


\* C19: a notification sent by the device between the header of a reply and
\* its terminal-status line does not change the Packet the call returns:
\* the first call of a run, GetMessage answered by a header, one line of
\* text and OK, returns the Message of that header with that line as body.
C19_NotificationKeepsPacket ==
  \A c \in Callers :
    (/\ cl[c].ret = "GetMessage" /\ Len(written) = 1
     /\ dreply = <<CMGRHdr, TextLine, OKLine>>) =>
      cl[c].pkt = parsePacket(OKLine, CMGRHdr, TextLine)


\* The step of a mode switch that a written line belongs to.
StepOf(line) ==
  CASE Mnemonic(line) = "+CSCS" -> "cscs"
    [] Mnemonic(line) = "+CSMP" -> "csmp"
    [] Mnemonic(line) = "+CSCA" /\ line[3] = T("?") -> "q"
    [] Mnemonic(line) = "+CSCA" -> "set"
    [] OTHER -> ""

PrevStep(st) ==
  CASE st = "csmp" -> "cscs" [] st = "q" -> "csmp" [] st = "set" -> "q"
    [] OTHER -> ""

SMSCOf(mode) == IF mode = "UCS2" THEN SMSCUcs2 ELSE SMSCGsm

\* C20: a mode switch writes +CSCS, +CSMP, +CSCA? and +CSCA=<arguments of
\* the +CSCA reply> in that order, each step after the first only when the
\* terminal Packet of the previous step has been received and is not ERROR;
\* the address is stored from the first argument of the +CSCA reply; and
\* when the call has returned without error EncodeMode is the requested
\* mode and the address stored for that mode is that argument.
C20_ModeSwitch ==
  /\ [](/\ \A i \in 1..Len(written) :
             /\ StepOf(written[i]) # ""
             /\ StepOf(written[i]) # "cscs" =>
                  i > 1 /\ StepOf(written[i - 1]) = PrevStep(StepOf(written[i]))
        /\ \A c \in Callers :
             /\ (cl[c].op \in ModeOps /\ cl[c].wait = "tx" /\ cl[c].at # "cscs") =>
                  /\ nterm = 1 /\ outstanding = 0
                  /\ cl[c].pkt.st = OKLine /\ cl[c].pkt.kind # "ERROR"
             /\ (cl[c].ret \in ModeOps /\ ~cl[c].err) =>
                  /\ EncodeMode = ModeOf(cl[c].ret)
                  /\ cl[c].pkt.kind = "SMSCAddress"
                  /\ SMSCOf(ModeOf(cl[c].ret)) = cl[c].pkt.args[1]
                  /\ StepOf(written[Len(written)]) = "set")
  /\ [][\A c \in Callers :
          /\ (cl[c].at = "q" /\ cl'[c].at = "set") =>
               /\ cl'[c].pkt.args = unquotes(SubSeq(dreply[1], 3, Len(dreply[1])))
               /\ SMSCOf(ModeOf(cl[c].op))' = unquote(dreply[1][3])
          /\ (cl[c].at = "set" /\ cl[c].wait = "tx" /\ cl'[c].wait = "rx") =>
               written' = Append(written,
                                 <<T("AT"), T("+CSCA"), T("=")>>
                                   \o SubSeq(dreply[1], 3, Len(dreply[1]))
                                   \o <<CRLF>>)]_vars

\* C20's case: ChangeToUCS2 has returned without error after its four
\* commands, with the address of the +CSCA reply stored for UCS2.
C20_Witness ==
  \E c \in Callers :
    /\ cl[c].ret = "ChangeToUCS2" /\ ~cl[c].err
    /\ Len(written) = 4
    /\ written[4] = <<T("AT"), T("+CSCA"), T("="), Q("+15550000"), T("145"), CRLF>>
    /\ EncodeMode = "UCS2" /\ SMSCUcs2 = StrV("+15550000")


\* C21: the engine is never left blocked on a delivery to the response
\* channel, with no caller receiving there, while a caller is blocked
\* handing it a command line (the engine would never take the command).
C21_EngineBackToSelect ==
  ~(/\ epc \in {"sendCont", "sendFinal"}
    /\ \A c \in Callers : cl[c].wait # "rx"
    /\ \E c \in Callers : cl[c].wait = "tx" /\ cl[c].at # "body")


\* C22: when ChangeToUCS2 or ChangeToGSM has returned an error, EncodeMode
\* has the value it had before the call.
C22_ModeKeptOnError ==
  \A c \in Callers :
    (cl[c].ret \in ModeOps /\ cl[c].err) => EncodeMode = cl[c].mode0

==========================================================================
